---------------------------- MODULE Spec2Model ----------------------------
(***************************************************************************)
(* Spatial autocorrelation analysis (Global Moran's I and LISA) of         *)
(* src/spatial_analysis.py: the SpatialAnalysisWorker pipeline             *)
(* (extraction, spatial weights, transformation, estimators) as a state    *)
(* machine.                                                                *)
(*                                                                         *)
(* Numbers.  The code computes in float64; the model computes exactly, in  *)
(* integers:                                                               *)
(*   - coordinates are points of an integer grid and distances are kept    *)
(*     squared (sqrt is monotone, so every comparison of distances is a    *)
(*     comparison of squared distances);                                   *)
(*   - a weight W[i][j] is kept multiplied by Scale, a common multiple of  *)
(*     every possible row sum, so that the division of row                 *)
(*     standardization is exact;                                           *)
(*   - values are fixed-point numbers with Resolution units per 1.0;       *)
(*   - a statistic is kept as a numerator over a denominator, and a        *)
(*     non-finite float (nan, inf) is a denominator of 0.                  *)
(* Python indexes from 0, the model from 1.                                *)
(***************************************************************************)
EXTENDS Integers, Sequences, FiniteSets, TLC

(***************************************************************************)
(* Bounds of the model.                                                    *)
(***************************************************************************)
\* most observations of a call of the weights builder on arbitrary coordinates
MaxN == 3
\* raw values range over 0..MaxVal
MaxVal == 2
\* small requested permutation counts range over 1..MaxPermutations
MaxPermutations == 2
\* a layer holds up to MaxFeatures features
MaxFeatures == 3
\* fixed-point units per 1.0 of a transformed value
Resolution == 10
\* coordinates are the grid points (0..MaxCoord) x (0..MaxCoord)
MaxCoord == 1
\* k_neighbors ranges over 1..MaxK
MaxK == 2
\* distance_radius ranges over 1..MaxRadius
MaxRadius == 3

(***************************************************************************)
(* Arithmetic helpers.                                                     *)
(***************************************************************************)
Min(a, b) == IF a <= b THEN a ELSE b

Max(a, b) == IF a >= b THEN a ELSE b

RECURSIVE Gcd(_, _)
Gcd(a, b) == IF b = 0 THEN a ELSE Gcd(b, a % b)

RECURSIVE LcmTo(_)
\* the least common multiple of 1..m
LcmTo(m) == IF m <= 1 THEN 1 ELSE (LcmTo(m - 1) * m) \div Gcd(LcmTo(m - 1), m)

\* a row of a 0/1 adjacency of n columns sums to at most n (the row's own column
\* included), and every such sum divides Scale; matrices have up to 5 rows
Scale == LcmTo(Max(MaxN, 5))

RECURSIVE SumTo(_, _)
\* f[1] + ... + f[m]
SumTo(f, m) == IF m = 0 THEN 0 ELSE f[m] + SumTo(f, m - 1)

SetMin(S) == CHOOSE x \in S : \A y \in S : x <= y

RECURSIVE AsSeq(_, _)
\* the sequence <<f[1], ..., f[m]>>
AsSeq(f, m) == IF m = 0 THEN <<>> ELSE Append(AsSeq(f, m - 1), f[m])

(***************************************************************************)
(* scipy.spatial.distance.cdist, squared.                                  *)
(***************************************************************************)
Dist2(p, q) == (p[1] - q[1]) * (p[1] - q[1]) + (p[2] - q[2]) * (p[2] - q[2])

cdist(coords) ==
    [i \in 1..Len(coords) |-> [j \in 1..Len(coords) |-> Dist2(coords[i], coords[j])]]

(***************************************************************************)
(* np.argsort(row): an ordering of the indices by their keys.  The default *)
(* kind ("quicksort") is not a stable sort, so equal keys may come out in  *)
(* any order: every ordering consistent with the keys is an outcome.       *)
(***************************************************************************)
RECURSIVE SortedOrders(_, _)
SortedOrders(row, S) ==
    IF S = {} THEN {<<>>}
    ELSE LET m == SetMin({row[e] : e \in S})
         IN  UNION {{<<e>> \o rest : rest \in SortedOrders(row, S \ {e})} :
                        e \in {x \in S : row[x] = m}}

argsort(row) == SortedOrders(row, DOMAIN row)

\* the index sets np.argsort(row)[1:k+1] can be
NearestSets(row, k) ==
    {{o[t] : t \in 2..Min(k + 1, Len(o))} : o \in argsort(row)}

ZeroMatrix(n) == [i \in 1..n |-> [j \in 1..n |-> 0]]

RECURSIVE RowChoices(_, _, _)
\* one index set per row 1..m, each any of that row's argsort outcomes
RowChoices(dist, k, m) ==
    IF m = 0 THEN {<<>>}
    ELSE {Append(s, x) : s \in RowChoices(dist, k, m - 1), x \in NearestSets(dist[m], k)}

\* for i in range(n): nearest = np.argsort(distances[i])[1:k+1]; W[i, nearest] = 1
KNearestAdjacency(coords, k) ==
    LET n == Len(coords)
        dist == cdist(coords)
    IN  {[i \in 1..n |-> [j \in 1..n |-> IF j \in f[i] THEN 1 ELSE 0]] :
            f \in RowChoices(dist, k, n)}

(***************************************************************************)
(* scipy.spatial.Delaunay(coordinates) (Qhull).  It raises when the points *)
(* span no triangle (all collinear, which includes fewer than three        *)
(* distinct points).  Otherwise it returns the triangles of a Delaunay     *)
(* triangulation: triangles whose circumcircle holds no input point        *)
(* strictly inside and that do not overlap; where four points lie on one   *)
(* circle either diagonal may be the one returned.  Of several input       *)
(* points at one coordinate a single one becomes a vertex; the others      *)
(* appear in no simplex.                                                   *)
(***************************************************************************)
Orient(p, q, r) == (q[1] - p[1]) * (r[2] - p[2]) - (q[2] - p[2]) * (r[1] - p[1])

AllCollinear(coords) ==
    \A i, j, l \in 1..Len(coords) : Orient(coords[i], coords[j], coords[l]) = 0

\* d strictly inside the circle through a, b, c (not collinear)
InCircumcircle(a, b, c, d) ==
    LET ax == a[1] - d[1]
        ay == a[2] - d[2]
        bx == b[1] - d[1]
        by == b[2] - d[2]
        cx == c[1] - d[1]
        cy == c[2] - d[2]
        a2 == ax * ax + ay * ay
        b2 == bx * bx + by * by
        c2 == cx * cx + cy * cy
        det == ax * (by * c2 - b2 * cy) - ay * (bx * c2 - b2 * cx)
                 + a2 * (bx * cy - by * cx)
    IN  det * Orient(a, b, c) > 0

\* one vertex index per distinct coordinate
RECURSIVE VertexChoices(_, _)
VertexChoices(coords, m) ==
    IF m = 0 THEN {{}}
    ELSE LET prev == VertexChoices(coords, m - 1)
         IN  {V \cup {m} : V \in {U \in prev : \A u \in U : coords[u] # coords[m]}}
             \cup {V \in prev : \E u \in V : coords[u] = coords[m]}
             \cup {(V \ {u \in V : coords[u] = coords[m]}) \cup {m} :
                      V \in {U \in prev : \E u \in U : coords[u] = coords[m]}}

\* triangles <<a, b, c>>, a < b < c, over the vertices V with an empty circumcircle
DelaunayTriangles(coords, V) ==
    {t \in V \X V \X V :
        /\ t[1] < t[2] /\ t[2] < t[3]
        /\ Orient(coords[t[1]], coords[t[2]], coords[t[3]]) # 0
        /\ \A d \in V \ {t[1], t[2], t[3]} :
              ~InCircumcircle(coords[t[1]], coords[t[2]], coords[t[3]], coords[d])}

\* the line through the edge p q of a triangle with third vertex r separates it from u
EdgeSeparates(coords, p, q, r, u) ==
    \A v \in {u[1], u[2], u[3]} :
        Orient(coords[p], coords[q], coords[v]) * Orient(coords[p], coords[q], coords[r]) <= 0

SomeEdgeSeparates(coords, t, u) ==
    \/ EdgeSeparates(coords, t[1], t[2], t[3], u)
    \/ EdgeSeparates(coords, t[2], t[3], t[1], u)
    \/ EdgeSeparates(coords, t[1], t[3], t[2], u)

\* two triangles with no interior point in common
NoOverlap(coords, t, u) ==
    SomeEdgeSeparates(coords, t, u) \/ SomeEdgeSeparates(coords, u, t)

Triangulations(coords, V) ==
    LET C == DelaunayTriangles(coords, V)
        Free == {t \in C : \A u \in C \ {t} : NoOverlap(coords, t, u)}
        Amb == C \ Free
    IN  {Free \cup X : X \in
            {Y \in SUBSET Amb :
                /\ \A t, u \in Y : t = u \/ NoOverlap(coords, t, u)
                /\ \A t \in Amb \ Y : \E u \in Y : ~NoOverlap(coords, t, u)}}

\* tri.simplices, or the exception
Delaunay(coords) ==
    IF AllCollinear(coords)
    THEN {[raised |-> TRUE, simplices |-> {}]}
    ELSE {[raised |-> FALSE, simplices |-> T] :
            T \in UNION {Triangulations(coords, V) : V \in VertexChoices(coords, Len(coords))}}

\* the loop over the simplices without its second assignment W[simplex[j], simplex[i]] = 1
SimplexAdjacencyOneWay(n, simplices) ==
    [i \in 1..n |-> [j \in 1..n |->
        IF i < j /\ \E t \in simplices : {i, j} \subseteq {t[1], t[2], t[3]} THEN 1 ELSE 0]]

\* W[simplex[i], simplex[j]] = 1 and W[simplex[j], simplex[i]] = 1 for the pairs of every simplex
SimplexAdjacency(n, simplices) ==
    [i \in 1..n |-> [j \in 1..n |->
        IF i # j /\ \E t \in simplices : {i, j} \subseteq {t[1], t[2], t[3]} THEN 1 ELSE 0]]

(***************************************************************************)
(* SpatialAnalysisWorker.build_spatial_weights_matrix.                     *)
(***************************************************************************)
\* distances[distances > 0]
PositiveDistances(coords) ==
    {Dist2(coords[i], coords[j]) : i, j \in 1..Len(coords)} \ {0}

\* (distances <= min_dist * 1.1) & (distances > 0); squared, 1.1 * 1.1 = 121 / 100
RookAdjacency(coords) ==
    LET min_dist == SetMin(PositiveDistances(coords))
    IN  [i \in 1..Len(coords) |-> [j \in 1..Len(coords) |->
            LET d == Dist2(coords[i], coords[j])
            IN  IF 100 * d <= 121 * min_dist /\ d > 0 THEN 1 ELSE 0]]

\* the test without its second part (distances > 0)
RadiusAdjacencyWithin(coords, radius) ==
    [i \in 1..Len(coords) |-> [j \in 1..Len(coords) |->
        IF Dist2(coords[i], coords[j]) <= radius * radius THEN 1 ELSE 0]]

\* (distances <= radius) & (distances > 0)
RadiusAdjacency(coords, radius) ==
    [i \in 1..Len(coords) |-> [j \in 1..Len(coords) |->
        LET d == Dist2(coords[i], coords[j])
        IN  IF d <= radius * radius /\ d > 0 THEN 1 ELSE 0]]

\* W.sum(axis=1)[i]
RowSum(M, i) == SumTo(M[i], Len(M[i]))

\* the rows divided by n instead of by their sums
RowStandardizeByCount(A) ==
    [i \in 1..Len(A) |-> [j \in 1..Len(A) |-> (A[i][j] * Scale) \div Len(A)]]

\* if row_sums[i] > 0: W[i] = W[i] / row_sums[i]
RowStandardize(A) ==
    [i \in 1..Len(A) |->
        IF RowSum(A, i) > 0
        THEN [j \in 1..Len(A) |-> (A[i][j] * Scale) \div RowSum(A, i)]
        ELSE A[i]]

\* the name of the fallback's log event
FallbackLogged == "Triangulacao falhou, usando K-vizinhos como alternativa"

\* the Queen branch: the adjacency and what was logged
QueenAdjacency(coords) ==
    LET n == Len(coords)
    IN  IF n >= 3
        THEN UNION {IF d.raised
                    THEN {[A |-> A, log |-> {FallbackLogged}] :
                             A \in KNearestAdjacency(coords, Min(4, n - 1))}
                    ELSE {[A |-> SimplexAdjacency(n, d.simplices), log |-> {}]} :
                        d \in Delaunay(coords)}
        ELSE {[A |-> ZeroMatrix(n), log |-> {}]}

\* the adjacency before row standardization, per neighbor_type; raised: np.min of an
\* empty array (no positive distance) raises ValueError
Adjacency(coords, p) ==
    LET n == Len(coords)
    IN  IF p.neighbor_type = "Queen"
        THEN {[raised |-> FALSE, A |-> q.A, log |-> q.log] : q \in QueenAdjacency(coords)}
        ELSE IF p.neighbor_type = "Rook"
        THEN IF PositiveDistances(coords) = {}
             THEN {[raised |-> TRUE, A |-> ZeroMatrix(n), log |-> {}]}
             ELSE {[raised |-> FALSE, A |-> RookAdjacency(coords), log |-> {}]}
        ELSE IF p.neighbor_type = "K-vizinhos"
        THEN {[raised |-> FALSE, A |-> A, log |-> {}] :
                 A \in KNearestAdjacency(coords, Min(p.k_neighbors, n - 1))}
        ELSE IF p.neighbor_type = "Distancia fixa"
        THEN {[raised |-> FALSE, A |-> RadiusAdjacency(coords, p.distance_radius), log |-> {}]}
        ELSE {[raised |-> FALSE, A |-> ZeroMatrix(n), log |-> {}]}

\* every way a call can end: the returned matrix, or the exception
build_spatial_weights_matrix(coords, p) ==
    {[raised |-> a.raised,
      A |-> a.A,
      W |-> IF a.raised THEN ZeroMatrix(Len(coords)) ELSE RowStandardize(a.A),
      log |-> a.log] : a \in Adjacency(coords, p)}

(***************************************************************************)
(* SpatialAnalysisWorker.prepare_data_by_type.  Raw values are integers;   *)
(* transformed values are fixed-point, Resolution units per 1.0.           *)
(***************************************************************************)
\* floor(sqrt(m))
ISqrt(m) == CHOOSE r \in 0..m : r * r <= m /\ (r + 1) * (r + 1) > m

\* np.sqrt(v) + np.sqrt(v + 1)
FreemanTukey(v) ==
    ISqrt(v * Resolution * Resolution) + ISqrt((v + 1) * Resolution * Resolution)

\* np.arcsin(np.sqrt(np.clip(v, 0, 1))) of an integer v: 0, or pi / 2
ArcsinSqrt(v) ==
    LET c == Min(Max(v, 0), 1)
    IN  IF c = 0 THEN 0 ELSE (15708 * Resolution) \div 10000

prepare_data_by_type(vals, p) ==
    IF p.data_type = "Contagem"
    THEN [i \in 1..Len(vals) |-> FreemanTukey(vals[i])]
    ELSE IF p.data_type = "Taxa"
    THEN [i \in 1..Len(vals) |-> ArcsinSqrt(vals[i])]
    ELSE [i \in 1..Len(vals) |-> vals[i] * Resolution]

(***************************************************************************)
(* Statistics shared by the estimators.                                    *)
(***************************************************************************)
\* values - np.mean(values), times n
Centered(vals) ==
    LET total == SumTo(vals, Len(vals))
    IN  AsSeq([i \in 1..Len(vals) |-> Len(vals) * vals[i] - total], Len(vals))

\* np.sum(W[i] * y), times Scale
Lag(M, i, y) == SumTo([j \in 1..Len(y) |-> M[i][j] * y[j]], Len(y))

\* the double sum of W[i,j] * y[i] * y[j], times Scale
CrossProduct(M, y) == SumTo([i \in 1..Len(y) |-> y[i] * Lag(M, i, y)], Len(y))

\* np.sum(y**2)
SumSquares(y) == SumTo([i \in 1..Len(y) |-> y[i] * y[i]], Len(y))

\* np.sum(W), times Scale
TotalWeight(M) == SumTo([i \in 1..Len(M) |-> RowSum(M, i)], Len(M))

(***************************************************************************)
(* np.random.permutation(y): any rearrangement of y.  The random stream of *)
(* one call is a pair of rearrangements drawn in turn: the first at the    *)
(* odd draws of the call, the second at the even draws; the second is the  *)
(* first again or the first moved round by one place.                      *)
(***************************************************************************)
RECURSIVE Rearrangements(_, _)
Rearrangements(y, S) ==
    IF S = {} THEN {<<>>}
    ELSE UNION {{<<y[e]>> \o rest : rest \in Rearrangements(y, S \ {e})} : e \in S}

permutation(y) == Rearrangements(y, DOMAIN y)

Rotate(a) == AsSeq([t \in 1..Len(a) |-> a[(t % Len(a)) + 1]], Len(a))

Streams(y) == UNION {{<<a, a>>, <<a, Rotate(a)>>} : a \in permutation(y)}

\* how many of the draws first + 1 .. first + trials of a stream are its d-th
\* rearrangement: the odd draws are the first, the even draws the second
Draws(d, first, trials) ==
    IF d = 1 THEN (first + trials + 1) \div 2 - (first + 1) \div 2
    ELSE (first + trials) \div 2 - first \div 2

\* a list of trial statistics is kept by its runs: the statistic of each of the two
\* rearrangements with the number of trials that drew it
Trials(stat, first, trials) ==
    <<[value |-> stat[1], times |-> Draws(1, first, trials)],
      [value |-> stat[2], times |-> Draws(2, first, trials)]>>

NoTrials == <<[value |-> 0, times |-> 0], [value |-> 0, times |-> 0]>>

\* len(xs)
Length(xs) == xs[1].times + xs[2].times

\* np.sum(xs)
Total(xs) == xs[1].times * xs[1].value + xs[2].times * xs[2].value

\* np.sum(xs > x): the trials strictly above x
CountAbove(xs, x) ==
    (IF xs[1].value > x THEN xs[1].times ELSE 0)
      + (IF xs[2].value > x THEN xs[2].times ELSE 0)

\* np.sum(xs >= x)
CountAtLeast(xs, x) ==
    (IF xs[1].value >= x THEN xs[1].times ELSE 0)
      + (IF xs[2].value >= x THEN xs[2].times ELSE 0)

\* np.sum(xs <= x)
CountAtMost(xs, x) ==
    (IF xs[1].value <= x THEN xs[1].times ELSE 0)
      + (IF xs[2].value <= x THEN xs[2].times ELSE 0)

\* a probability num / den; NaN is the 0 / 0 of a division by zero valid permutations
NaN == <<0, 0>>

One == <<1, 1>>

\* 2 * (count / valid) without the cap at 1.0
TwoSidedUncapped(count, valid) ==
    IF valid = 0 THEN NaN ELSE <<2 * count, valid>>

\* min(2 * (count / valid), 1.0), which is nan when valid is 0
TwoSided(count, valid) ==
    IF valid = 0 THEN NaN
    ELSE IF 2 * count >= valid THEN One ELSE <<2 * count, valid>>

Sign(x) == IF x > 0 THEN 1 ELSE IF x < 0 THEN -1 ELSE 0

\* the variance taken for positive whenever there is a trial: the test var > 0 is lost
VarianceSignOfAnyTrials(xs) == IF Length(xs) > 0 THEN 1 ELSE 0

\* np.var(xs) > 0 for a list xs of more than one value, else 0: kept as 1 or 0
VarianceSign(xs) ==
    IF xs[1].times > 0 /\ xs[2].times > 0 /\ xs[1].value # xs[2].value THEN 1 ELSE 0


(***************************************************************************)
(* SpatialAnalysisWorker.calculate_advanced_moran_i.                       *)
(***************************************************************************)
\* min(self.params['permutations'], 199)
GlobalPermutationCap == 199

\* the trial count without the limit of 199
MoranPermutationsUncapped(p) == p.permutations

\* permutations = min(self.params['permutations'], 199): the trials of the loop
MoranPermutations(p) == Min(p.permutations, GlobalPermutationCap)

\* the statistic (n / S0) * (numerator / denominator) of the vector y, as a numerator
\* over the denominator MoranDenominator: n * np.mean-centered sums cancel their scales
MoranNumerator(M, y) == Len(y) * CrossProduct(M, y)

\* S0 * denominator; 0 exactly when the float statistic is not finite (inf * 0, 0 / 0)
MoranDenominator(M, y) == TotalWeight(M) * SumSquares(y)

\* I_permuted: the finite statistics of the trials 1..trials
MoranPermuted(M, y, stream, trials) ==
    IF MoranDenominator(M, y) = 0 THEN NoTrials
    ELSE Trials(<<MoranNumerator(M, stream[1]), MoranNumerator(M, stream[2])>>,
                0, trials)

\* the comparison made of the failed trials instead of the valid ones
CountsFailures(valid, trials) == 2 * (trials - valid) < trials

\* valid_permutations < permutations * 0.5
TooManyFailed(valid, trials) == 2 * valid < trials

PermutationsFailed == "Muitas permutacoes falharam"

\* the direction decided against 0 instead of E_I
AtLeastZero(I_num, I_den, n) == I_den # 0 /\ I_num >= 0

\* I_observed >= E_I, with E_I = -1 / (n - 1); false of a nan
AtLeastExpected(I_num, I_den, n) == I_den # 0 /\ I_num * (n - 1) >= -I_den

calculate_advanced_moran_i(vals, M, p, stream) ==
    LET n == Len(vals)
        y == Centered(vals)
        I_num == MoranNumerator(M, y)
        I_den == MoranDenominator(M, y)
        permutations == MoranPermutations(p)
        I_permuted == MoranPermuted(M, y, stream, permutations)
        valid_permutations == Length(I_permuted)
        above == AtLeastExpected(I_num, I_den, n)
        count == IF above THEN CountAtLeast(I_permuted, I_num)
                 ELSE IF I_den # 0 THEN CountAtMost(I_permuted, I_num)
                 ELSE 0
        var_I == VarianceSign(I_permuted)
    IN  IF TooManyFailed(valid_permutations, permutations)
        THEN [raised |-> TRUE, error |-> PermutationsFailed]
        ELSE [raised |-> FALSE,
              I |-> <<I_num, I_den>>,
              E_I |-> <<-1, n - 1>>,
              Var_I |-> var_I,
              z_score |-> IF var_I > 0 THEN Sign(I_num * (n - 1) + I_den) ELSE 0,
              p_value |-> TwoSided(count, valid_permutations),
              permutations |-> valid_permutations,
              total_attempted |-> permutations,
              significance_level |-> p.significance_level]


(***************************************************************************)
(* SpatialAnalysisWorker.calculate_advanced_lisa.                          *)
(***************************************************************************)
\* min(self.params['permutations'] // 2, 99)
LisaPermutationCap == 99

NotSignificant == "Nao significativo"

\* p_val <= significance_level; the level is kept in thousandths (0.05 is 50)
AtMostLevel(p_val, level) == p_val[1] * 1000 <= level * p_val[2]

\* original_value - mean_value of observation i, times n
OwnDeviation(vals, i) == Len(vals) * vals[i] - SumTo(vals, Len(vals))

\* neighbors_mean - mean_value, times n * Scale; neighbors_mean is the mean itself
\* when the row of W sums to 0
LagDeviation(vals, M, i) ==
    IF RowSum(M, i) > 0
    THEN Len(vals) * Lag(M, i, vals) - Scale * SumTo(vals, Len(vals))
    ELSE 0

\* the classification with >= and <= for > and <: a value at the mean counts as high
SpatialPatternTiesHigh(p_val, vals, M, i, level) ==
    LET own == OwnDeviation(vals, i)
        lag == LagDeviation(vals, M, i)
    IN  IF AtMostLevel(p_val, level)
        THEN IF own >= 0 /\ lag >= 0 THEN "High-High"
             ELSE IF own <= 0 /\ lag <= 0 THEN "Low-Low"
             ELSE IF own >= 0 /\ lag <= 0 THEN "High-Low"
             ELSE IF own <= 0 /\ lag >= 0 THEN "Low-High"
             ELSE NotSignificant
        ELSE NotSignificant

\* the pattern of observation i from the vector vals the estimator was given
SpatialPattern(p_val, vals, M, i, level) ==
    LET own == OwnDeviation(vals, i)
        lag == LagDeviation(vals, M, i)
    IN  IF AtMostLevel(p_val, level)
        THEN IF own > 0 /\ lag > 0 THEN "High-High"
             ELSE IF own < 0 /\ lag < 0 THEN "Low-Low"
             ELSE IF own > 0 /\ lag < 0 THEN "High-Low"
             ELSE IF own < 0 /\ lag > 0 THEN "Low-High"
             ELSE NotSignificant
        ELSE NotSignificant

\* observation i's local statistic y[i] * np.sum(W[i] * y_perm) of one rearrangement
LocalStatistic(M, y, i, y_perm) == y[i] * Lag(M, i, y_perm)

\* lisa_i_perm of observation i: its trials are the draws first + 1 .. first + trials
LisaPermuted(M, y, i, stream, first, trials) ==
    Trials(<<LocalStatistic(M, y, i, stream[1]), LocalStatistic(M, y, i, stream[2])>>,
           first, trials)

\* the test without the branch of valid_local_perms == 0: the division is made
LisaTestWithoutDefault(lisa_i_obs, lisa_i_perm) ==
    LET valid_local_perms == Length(lisa_i_perm)
        count == IF lisa_i_obs >= 0 THEN CountAtLeast(lisa_i_perm, lisa_i_obs)
                 ELSE CountAtMost(lisa_i_perm, lisa_i_obs)
    IN  [p_val |-> TwoSided(count, valid_local_perms),
         z_i |-> IF VarianceSign(lisa_i_perm) > 0
                 THEN Sign(valid_local_perms * lisa_i_obs - Total(lisa_i_perm))
                 ELSE 0]

\* the p-value and the sign of the z-score of observation i
LisaTest(lisa_i_obs, lisa_i_perm) ==
    LET valid_local_perms == Length(lisa_i_perm)
        count == IF lisa_i_obs >= 0 THEN CountAtLeast(lisa_i_perm, lisa_i_obs)
                 ELSE CountAtMost(lisa_i_perm, lisa_i_obs)
        var_perm == VarianceSign(lisa_i_perm)
    IN  IF valid_local_perms = 0
        THEN [p_val |-> One, z_i |-> 0]
        ELSE [p_val |-> TwoSided(count, valid_local_perms),
              z_i |-> IF var_perm > 0
                      THEN Sign(valid_local_perms * lisa_i_obs - Total(lisa_i_perm))
                      ELSE 0]

calculate_advanced_lisa(vals, M, p, stream) ==
    LET n == Len(vals)
        y == Centered(vals)
        permutations == Min(p.permutations \div 2, LisaPermutationCap)
        test == AsSeq([i \in 1..n |->
                          LisaTest(LocalStatistic(M, y, i, y),
                                   LisaPermuted(M, y, i, stream, (i - 1) * permutations,
                                                permutations))], n)
    IN  [lisa_values |-> [i \in 1..n |-> LocalStatistic(M, y, i, y)],
         z_scores |-> [i \in 1..n |-> test[i].z_i],
         p_values |-> [i \in 1..n |-> test[i].p_val],
         spatial_patterns |->
             [i \in 1..n |->
                 SpatialPattern(test[i].p_val, vals, M, i, p.significance_level)],
         significance_level |-> p.significance_level]


(***************************************************************************)
(* SpatialAnalysisWorker.extract_and_validate_data.  A feature of the      *)
(* layer has a field value and a geometry.                                 *)
(***************************************************************************)
Number(v) == [kind |-> "number", number |-> v]

\* the field holds None
Missing == [kind |-> "NULL", number |-> 0]

\* the field holds a text that float() cannot convert: it raises ValueError
NotNumeric == [kind |-> "text", number |-> 0]

\* the field holds inf or nan, as a float or as a text float() converts
NotFinite == [kind |-> "not finite", number |-> 0]

Point(at) == [kind |-> "Point", at |-> at]

\* geom.isEmpty()
EmptyGeometry == [kind |-> "Empty", at |-> <<0, 0>>]

\* a point geometry of several parts: geom.asPoint() raises TypeError
MultiPoint(at) == [kind |-> "MultiPoint", at |-> at]

\* the checks without the one of negative counts
SkippedBeforeAppendAnySign(feature, p) ==
    \/ feature.geometry.kind = "Empty"
    \/ feature.field_value.kind \in {"NULL", "text", "not finite"}

\* the checks that end in invalid_count += 1 and continue before values.append: an
\* empty geometry, a missing value, a value float() rejects, a value that is not
\* finite, a negative count
SkippedBeforeAppend(feature, p) ==
    \/ feature.geometry.kind = "Empty"
    \/ feature.field_value.kind = "NULL"
    \/ feature.field_value.kind = "text"
    \/ feature.field_value.kind = "not finite"
    \/ (p.data_type = "Contagem" /\ feature.field_value.number < 0)

\* the lists after the first m features of the loop over layer.getFeatures()
RECURSIVE Extracted(_, _, _)
Extracted(lyr, p, m) ==
    IF m = 0
    THEN [features |-> <<>>, values |-> <<>>, coordinates |-> <<>>, invalid_count |-> 0]
    ELSE LET e == Extracted(lyr, p, m - 1)
             feature == lyr[m]
         IN  IF SkippedBeforeAppend(feature, p)
             THEN [e EXCEPT !.invalid_count = @ + 1]
             ELSE IF feature.geometry.kind = "MultiPoint"
             \* values.append and features.append come before asPoint raises
             THEN [e EXCEPT !.values = Append(@, feature.field_value.number),
                            !.features = Append(@, m),
                            !.invalid_count = @ + 1]
             ELSE [e EXCEPT !.values = Append(@, feature.field_value.number),
                            !.features = Append(@, m),
                            !.coordinates = Append(@, feature.geometry.at)]

IgnoredLogged == "Foram ignoradas feicoes com dados invalidos ou ausentes"

NoValidValue == "Nenhum valor numerico valido encontrado no campo"

extract_and_validate_data(lyr, p) ==
    LET e == Extracted(lyr, p, Len(lyr))
    IN  [features |-> e.features,
         values |-> e.values,
         coordinates |-> e.coordinates,
         log |-> IF e.invalid_count > 0 THEN {IgnoredLogged} ELSE {},
         raised |-> Len(e.values) = 0]

(***************************************************************************)
(* SpatialAnalysisWorker.create_lisa_layer.  A field is its name; the       *)
(* attributes of a new feature are kept in two functions, essential and     *)
(* lisa, over the names of the fields added in the two addAttributes calls. *)
(***************************************************************************)
\* field.name().lower(), for the names used here
Lower(name) ==
    CASE name = "ID" -> "id"
      [] name = "Id" -> "id"
      [] name = "FID" -> "fid"
      [] name = "OBJECTID" -> "objectid"
      [] OTHER -> name

IdNames == {"id", "fid", "objectid"}

\* the names of a sequence of fields
Names(fields) == {fields[k] : k \in 1..Len(fields)}

\* the original fields appended to essential_fields by the loop over original_fields
EssentialOriginal(p) ==
    LET Kept(name) == Lower(name) \in IdNames \cup {Lower(p.field_name)}
    IN  SelectSeq(p.layer_fields, Kept)

id_field_added(p) == \E name \in Names(p.layer_fields) : Lower(name) \in IdNames

essential_fields(p) ==
    IF id_field_added(p) THEN EssentialOriginal(p) ELSE Append(EssentialOriginal(p), "ID")

lisa_fields ==
    <<"LISA_I", "LISA_Z", "LISA_P", "Padrao_Espacial", "Significativo", "Categoria_Visual">>

\* the 6 of essential_fields[:-6]
ExcludedAtEnd == 6

\* essential_fields[:-6], the fields the copy loop runs over
CopiedFields(p) ==
    SubSeq(essential_fields(p), 1, Max(0, Len(essential_fields(p)) - ExcludedAtEnd))

\* feature[field_name] of the feature at place m of the layer: the analysed field holds
\* its value, an id field holds the place
SourceValue(lyr, m, name, p) ==
    IF name = p.field_name THEN lyr[m].field_value ELSE Number(m)

\* the attributes of the essential fields of the new feature made at step i of the
\* loop (i counted from 1) from the feature at place m; a field not assigned holds NULL
EssentialAttributes(lyr, m, i, p) ==
    [name \in Names(essential_fields(p)) |->
        IF name \in Names(CopiedFields(p)) /\ name \in Names(p.layer_fields)
        THEN SourceValue(lyr, m, name, p)
        ELSE IF name = "ID" /\ ~id_field_added(p) THEN Number(i)
        ELSE Missing]

\* Significativo and Categoria_Visual read from the pattern instead of from the p-value
LisaAttributesFromPattern(res, i) ==
    [LISA_I |-> res.lisa_values[i],
     LISA_Z |-> res.z_scores[i],
     LISA_P |-> res.p_values[i],
     Padrao_Espacial |-> res.spatial_patterns[i],
     Significativo |-> IF res.spatial_patterns[i] # NotSignificant THEN "Sim" ELSE "Nao",
     Categoria_Visual |-> res.spatial_patterns[i]]

\* the six LISA attributes of the feature of observation i
LisaAttributes(res, i) ==
    LET significant == AtMostLevel(res.p_values[i], res.significance_level)
    IN  [LISA_I |-> res.lisa_values[i],
         LISA_Z |-> res.z_scores[i],
         LISA_P |-> res.p_values[i],
         Padrao_Espacial |-> res.spatial_patterns[i],
         Significativo |-> IF significant THEN "Sim" ELSE "Nao",
         Categoria_Visual |-> IF significant THEN res.spatial_patterns[i]
                              ELSE NotSignificant]

\* new_features after the first m steps of the loop over features: a feature without
\* a LISA result or with an empty geometry is passed over
RECURSIVE NewFeatures(_, _, _, _, _)
NewFeatures(lyr, feats, res, p, m) ==
    IF m = 0 THEN <<>>
    ELSE LET before == NewFeatures(lyr, feats, res, p, m - 1)
         IN  IF m > Len(res.lisa_values) \/ lyr[feats[m]].geometry.kind = "Empty"
             THEN before
             ELSE Append(before,
                         [geometry |-> lyr[feats[m]].geometry,
                          essential |-> EssentialAttributes(lyr, feats[m], m, p),
                          lisa |-> LisaAttributes(res, m)])

LayerNotCreated == "Nao foi possivel criar a camada de resultados"

NoFeatureCreated == "Nenhuma feature valida foi criada para a camada de resultados"

\* the layer returned, or the exception raised when no feature was made
create_lisa_layer(lyr, feats, res, p) ==
    LET new_features == NewFeatures(lyr, feats, res, p, Len(feats))
    IN  IF new_features = <<>>
        THEN [raised |-> TRUE, error |-> NoFeatureCreated]
        ELSE [raised |-> FALSE,
              layer |-> [fields |-> essential_fields(p) \o lisa_fields,
                         features |-> new_features]]

(***************************************************************************)
(* State.                                                                  *)
(***************************************************************************)
VARIABLES
    params,            \* SpatialAnalysisWorker.params, without the layer
    layer,             \* params['layer']: the features of the input layer
    pc,                \* the phase run_analysis is at, "returned" or "raised"
    calls,             \* the worker's methods called so far, in order
    current_progress,  \* SpatialAnalysisWorker.current_progress
    features,          \* the accepted features, by their place in the layer
    values,            \* the extracted raw values
    coordinates,       \* the extracted coordinates
    adjacency,         \* the local W of the builder before row standardization
    W,                 \* the spatial weights matrix (times Scale)
    log,               \* the messages logged through safe_log_message
    processed_values,  \* the transformed values (fixed-point)
    moran,             \* results['moran']
    lisa,              \* results['lisa']
    lisa_layer,        \* results['lisa_layer']
    saved_file,        \* results['saved_file']
    error,             \* the message of the exception that ended the run, or NoError
    dialog             \* SpatialAnalysisDialog: its widgets and where its run_analysis is

vars == <<params, layer, pc, calls, current_progress, features, values, coordinates,
          adjacency, W, log, processed_values, moran, lisa, lisa_layer, saved_file,
          error, dialog>>

NoError == "none"

\* the dialog before a run and after one: the run button enabled, the progress timer
\* stopped, the progress bar hidden
DialogIdle == [at |-> "idle", run_button |-> TRUE, timer |-> FALSE, progress_bar |-> FALSE]

NoMatrix == <<>>

\* a key results does not hold
Absent == [absent |-> TRUE]

Grid == (0..MaxCoord) \X (0..MaxCoord)

\* the coordinate sequences of n observations
Layouts(n) == [1..n -> Grid]

\* the i-th place of a lattice, width places to a row, two units apart
LatticePlace(i, width) == <<2 * ((i - 1) % width), 2 * ((i - 1) \div width)>>

\* n observations laid out row by row
Lattice(n, width) == [i \in 1..n |-> LatticePlace(i, width)]

\* run_analysis calls the estimators on 3 observations or more
EstimatorSizes == {3, 4}

LatticeLayouts(sizes) == {Lattice(n, width) : n \in sizes, width \in 1..2}

\* requested permutation counts: small ones, the cap, and more than twice the cap
PermutationChoices ==
    (1..MaxPermutations) \cup {GlobalPermutationCap, 2 * GlobalPermutationCap + 2}

DataTypes == {"Continuo", "Contagem", "Taxa"}

\* the values of the parameters a specification does not vary; the significance
\* level is in thousandths (0.05 is 50)
DefaultParams ==
    [data_type |-> "Continuo",
     neighbor_type |-> "Queen",
     k_neighbors |-> 1,
     distance_radius |-> 1,
     run_global |-> TRUE,
     run_lisa |-> TRUE,
     create_maps |-> FALSE,
     save_file |-> FALSE,
     significance_level |-> 50,
     permutations |-> 1,
     field_name |-> "valor",
     layer_fields |-> <<"valor">>]

\* the neighbor definitions with the parameter each one reads
NeighborParams ==
    {[DefaultParams EXCEPT !.neighbor_type = "Queen"],
     [DefaultParams EXCEPT !.neighbor_type = "Rook"]}
    \cup {[DefaultParams EXCEPT !.neighbor_type = "K-vizinhos", !.k_neighbors = k] :
             k \in 1..MaxK}
    \cup {[DefaultParams EXCEPT !.neighbor_type = "Distancia fixa", !.distance_radius = r] :
             r \in 1..MaxRadius}

\* the global estimation run whether it was requested or not
AfterPrepareAlwaysMoran(p) == "moran"

\* the phase after the one that prepared the data, ran Moran, created the layer, saved
AfterPrepare(p) ==
    IF p.run_global THEN "moran" ELSE IF p.run_lisa THEN "lisa" ELSE "completed"

AfterMoran(p) == IF p.run_lisa THEN "lisa" ELSE "completed"

AfterLayer(p) ==
    IF p.save_file THEN "save" ELSE IF p.create_maps THEN "visualization" ELSE "completed"

AfterSave(p) == IF p.create_maps THEN "visualization" ELSE "completed"

InsufficientObservations == "Numero insuficiente de observacoes validas"

\* what numpy raises when an estimator indexes or multiplies W by a vector of another
\* length: W[i] out of range, or operands that cannot be broadcast together
ShapeError(M) == IF Len(M) >= 2 THEN "ValueError" ELSE "IndexError"

(***************************************************************************)
(* The phases of SpatialAnalysisWorker.run_analysis.                       *)
(***************************************************************************)
\* Fase 1, with the check of len(values) that follows it
ExtractPhase ==
    /\ pc = "extract"
    /\ current_progress' = 5
    /\ calls' = Append(calls, "extract_and_validate_data")
    /\ \E e \in {extract_and_validate_data(layer, params)} :
          /\ log' = log \cup e.log
          /\ IF e.raised
             THEN /\ pc' = "raised"
                  /\ error' = NoValidValue
                  /\ UNCHANGED <<features, values, coordinates>>
             ELSE /\ features' = e.features
                  /\ values' = e.values
                  /\ coordinates' = e.coordinates
                  /\ pc' = IF Len(e.values) < 3 THEN "raised" ELSE "weights"
                  /\ error' = IF Len(e.values) < 3 THEN InsufficientObservations
                              ELSE NoError
    /\ UNCHANGED <<dialog, params, layer, adjacency, W, processed_values, moran, lisa,
                   lisa_layer, saved_file>>

\* Fase 2
WeightsPhase ==
    /\ pc = "weights"
    /\ current_progress' = 20
    /\ calls' = Append(calls, "build_spatial_weights_matrix")
    /\ \E b \in build_spatial_weights_matrix(coordinates, params) :
          /\ adjacency' = b.A
          /\ W' = IF b.raised THEN NoMatrix ELSE b.W
          /\ log' = log \cup b.log
          /\ pc' = IF b.raised THEN "raised" ELSE "prepare"
          /\ error' = IF b.raised THEN "ValueError" ELSE NoError
    /\ UNCHANGED <<dialog, params, layer, features, values, coordinates, processed_values,
                   moran, lisa, lisa_layer, saved_file>>

\* Fase 3
PreparePhase ==
    /\ pc = "prepare"
    /\ current_progress' = 35
    /\ calls' = Append(calls, "prepare_data_by_type")
    /\ processed_values' = prepare_data_by_type(values, params)
    /\ pc' = AfterPrepare(params)
    /\ UNCHANGED <<dialog, params, layer, features, values, coordinates, adjacency, W, log,
                   moran, lisa, lisa_layer, saved_file, error>>

\* Fase 4, run_global
MoranPhase ==
    /\ pc = "moran"
    /\ current_progress' = 50
    /\ calls' = Append(calls, "calculate_advanced_moran_i")
    /\ IF Len(processed_values) # Len(W)
       THEN /\ moran' = Absent
            /\ pc' = "raised"
            /\ error' = ShapeError(W)
       ELSE \E stream \in Streams(Centered(processed_values)) :
            \E r \in {calculate_advanced_moran_i(processed_values, W, params, stream)} :
                /\ moran' = IF r.raised THEN Absent ELSE r
                /\ pc' = IF r.raised THEN "raised" ELSE AfterMoran(params)
                /\ error' = IF r.raised THEN r.error ELSE NoError
    /\ UNCHANGED <<dialog, params, layer, features, values, coordinates, adjacency, W, log,
                   processed_values, lisa, lisa_layer, saved_file>>

\* Fase 4, run_lisa
LisaPhase ==
    /\ pc = "lisa"
    /\ current_progress' = 70
    /\ calls' = Append(calls, "calculate_advanced_lisa")
    /\ IF Len(processed_values) # Len(W)
       THEN /\ lisa' = Absent
            /\ pc' = "raised"
            /\ error' = ShapeError(W)
       ELSE \E stream \in Streams(Centered(processed_values)) :
                /\ lisa' = calculate_advanced_lisa(processed_values, W, params, stream)
                /\ pc' = "layer"
                /\ error' = NoError
    /\ UNCHANGED <<dialog, params, layer, features, values, coordinates, adjacency, W, log,
                   processed_values, moran, lisa_layer, saved_file>>

\* create_lisa_layer: the memory layer is created and filled, or the provider refuses
\* (new_layer.isValid() is false), or no feature was made
LayerPhase ==
    /\ pc = "layer"
    /\ current_progress' = 85
    /\ calls' = Append(calls, "create_lisa_layer")
    /\ \E created \in BOOLEAN :
       \E r \in {create_lisa_layer(layer, features, lisa, params)} :
          /\ lisa_layer' = IF created /\ ~r.raised THEN r.layer ELSE Absent
          /\ pc' = IF created /\ ~r.raised THEN AfterLayer(params) ELSE "raised"
          /\ error' = IF ~created THEN LayerNotCreated
                      ELSE IF r.raised THEN r.error ELSE NoError
    /\ UNCHANGED <<dialog, params, layer, features, values, coordinates, adjacency, W, log,
                   processed_values, moran, lisa, saved_file>>

SaveFailedLogged == "Erro ao salvar arquivo"

\* save_layer_to_file returns the path, or logs the error and returns None
SavePhase ==
    /\ pc = "save"
    /\ current_progress' = 90
    /\ calls' = Append(calls, "save_layer_to_file")
    /\ \E written \in BOOLEAN :
          /\ saved_file' = IF written THEN [path |-> "LISA_Analise.shp"] ELSE Absent
          /\ log' = IF written THEN log ELSE log \cup {SaveFailedLogged}
    /\ pc' = AfterSave(params)
    /\ UNCHANGED <<dialog, params, layer, features, values, coordinates, adjacency, W,
                   processed_values, moran, lisa, lisa_layer, error>>

VisualizationFailedLogged == "Erro ao aplicar visualizacao"

\* create_automatic_visualization applies the renderer, or logs why it did not
VisualizationPhase ==
    /\ pc = "visualization"
    /\ current_progress' = 95
    /\ calls' = Append(calls, "create_automatic_visualization")
    /\ \E applied \in BOOLEAN :
          log' = IF applied THEN log ELSE log \cup {VisualizationFailedLogged}
    /\ pc' = "completed"
    /\ UNCHANGED <<dialog, params, layer, features, values, coordinates, adjacency, W,
                   processed_values, moran, lisa, lisa_layer, saved_file, error>>

\* the return without update_progress(100)
CompletedWithoutProgress ==
    /\ pc = "completed"
    /\ pc' = "returned"
    /\ UNCHANGED <<dialog, params, layer, calls, current_progress, features, values,
                   coordinates,
                   adjacency, W, log, processed_values, moran, lisa, lisa_layer,
                   saved_file, error>>

\* update_progress(100) and return results
Completed ==
    /\ pc = "completed"
    /\ current_progress' = 100
    /\ pc' = "returned"
    /\ UNCHANGED <<dialog, params, layer, calls, features, values, coordinates,
                   adjacency, W, log,
                   processed_values, moran, lisa, lisa_layer, saved_file, error>>

(***************************************************************************)
(* A whole run of run_analysis on a layer.                                 *)
(***************************************************************************)
\* a feature at the i-th place of a lattice: a point with a value, a point without,
\* an empty geometry, or a point of several parts
FeaturesAt(i) ==
    {[field_value |-> Number(v), geometry |-> Point(LatticePlace(i, 2))] : v \in 0..MaxVal}
    \cup {[field_value |-> Missing, geometry |-> Point(LatticePlace(i, 2))],
          [field_value |-> Number(0), geometry |-> EmptyGeometry],
          [field_value |-> Number(0), geometry |-> MultiPoint(LatticePlace(i, 2))]}

Layers ==
    UNION {{lyr \in [1..n -> UNION {FeaturesAt(i) : i \in 1..n}] :
               \A i \in 1..n : lyr[i] \in FeaturesAt(i)} : n \in 0..MaxFeatures}

\* what the user ticks: the analyses, the file, the maps
RunParams ==
    {[DefaultParams EXCEPT !.run_global = g, !.run_lisa = l,
                           !.save_file = f, !.create_maps = m] :
        g \in BOOLEAN, l \in BOOLEAN, f \in BOOLEAN, m \in BOOLEAN}

Init ==
    /\ params \in RunParams
    /\ layer \in Layers
    /\ pc = "extract"
    /\ calls = <<>>
    /\ current_progress = 0
    /\ features = <<>>
    /\ values = <<>>
    /\ coordinates = <<>>
    /\ adjacency = NoMatrix
    /\ W = NoMatrix
    /\ log = {}
    /\ processed_values = <<>>
    /\ moran = Absent
    /\ lisa = Absent
    /\ lisa_layer = Absent
    /\ saved_file = Absent
    /\ error = NoError
    /\ dialog = DialogIdle

Next ==
    \/ ExtractPhase
    \/ WeightsPhase
    \/ PreparePhase
    \/ MoranPhase
    \/ LisaPhase
    \/ LayerPhase
    \/ SavePhase
    \/ VisualizationPhase
    \/ Completed

Spec == Init /\ [][Next]_vars

(***************************************************************************)
(* SpatialAnalysisDialog.run_analysis: the dialog checks the layer and the *)
(* selection, creates the worker, runs it in the calling thread and shows  *)
(* the results or the error.                                               *)
(***************************************************************************)
\* the state of the worker, which the dialog's own steps leave alone
worker == <<params, layer, pc, calls, current_progress, features, values, coordinates,
            adjacency, W, log, processed_values, moran, lisa, lisa_layer, saved_file,
            error>>

\* the widgets left with the run button disabled
DialogEndedButtonDisabled(at) ==
    [at |-> at, run_button |-> FALSE, timer |-> FALSE, progress_bar |-> FALSE]

\* timer.stop(), progress_bar.setVisible(False), run_button.setEnabled(True)
DialogEnded(at) ==
    [at |-> at, run_button |-> TRUE, timer |-> FALSE, progress_bar |-> FALSE]

\* layer.featureCount() < 3, or neither analysis ticked: a warning, and return
RefuseAnalysis ==
    /\ dialog.at = "idle"
    /\ Len(layer) < 3 \/ (~params.run_global /\ ~params.run_lisa)
    /\ dialog' = [dialog EXCEPT !.at = "refused"]
    /\ UNCHANGED worker

\* the worker is created, the progress bar shown, the run button disabled, the timer
\* started
StartAnalysis ==
    /\ dialog.at = "idle"
    /\ ~(Len(layer) < 3 \/ (~params.run_global /\ ~params.run_lisa))
    /\ dialog' = [at |-> "running", run_button |-> FALSE, timer |-> TRUE,
                  progress_bar |-> TRUE]
    /\ UNCHANGED worker

\* results = self.analysis_worker.run_analysis(), inside the try
WorkerRuns ==
    /\ dialog.at = "running"
    /\ \/ ExtractPhase
       \/ WeightsPhase
       \/ PreparePhase
       \/ MoranPhase
       \/ LisaPhase
       \/ LayerPhase
       \/ SavePhase
       \/ VisualizationPhase
       \/ Completed

\* analysis_finished(results), up to the results dialog
analysis_finished ==
    /\ dialog.at = "running"
    /\ pc = "returned"
    /\ dialog' = DialogEnded("results")
    /\ UNCHANGED worker

\* AdvancedResultsDialog(results).exec_(): it returns, or it raises and the except
\* clause of run_analysis calls analysis_error
ShowResults ==
    /\ dialog.at = "results"
    /\ \E shown \in BOOLEAN :
          dialog' = IF shown THEN [dialog EXCEPT !.at = "done"] ELSE DialogEnded("error")
    /\ UNCHANGED worker

\* analysis_error(str(e)) for an exception of the worker
analysis_error ==
    /\ dialog.at = "running"
    /\ pc = "raised"
    /\ dialog' = DialogEnded("error")
    /\ UNCHANGED worker

\* the layers the dialog is run on: at the i-th place a point with a value, a point
\* without one, or a point of several parts
DialogFeaturesAt(i) ==
    {[field_value |-> Number(i % (MaxVal + 1)), geometry |-> Point(LatticePlace(i, 2))],
     [field_value |-> Missing, geometry |-> Point(LatticePlace(i, 2))],
     [field_value |-> Number(0), geometry |-> MultiPoint(LatticePlace(i, 2))]}

DialogLayers ==
    UNION {{lyr \in [1..n -> UNION {DialogFeaturesAt(i) : i \in 1..n}] :
               \A i \in 1..n : lyr[i] \in DialogFeaturesAt(i)} : n \in 0..MaxFeatures}

InitDialog ==
    /\ params \in RunParams
    /\ layer \in DialogLayers
    /\ pc = "extract"
    /\ calls = <<>>
    /\ current_progress = 0
    /\ features = <<>>
    /\ values = <<>>
    /\ coordinates = <<>>
    /\ adjacency = NoMatrix
    /\ W = NoMatrix
    /\ log = {}
    /\ processed_values = <<>>
    /\ moran = Absent
    /\ lisa = Absent
    /\ lisa_layer = Absent
    /\ saved_file = Absent
    /\ error = NoError
    /\ dialog = DialogIdle

NextDialog ==
    \/ RefuseAnalysis
    \/ StartAnalysis
    \/ WorkerRuns
    \/ analysis_finished
    \/ ShowResults
    \/ analysis_error

\* the run is synchronous: every step of the dialog and of the worker it called is
\* taken
SpecDialog == InitDialog /\ [][NextDialog]_vars /\ WF_vars(NextDialog)

(***************************************************************************)
(* The extraction called on any layer: values of either sign, values that  *)
(* are missing, not numeric or not finite, empty geometries and points of  *)
(* several parts, for each data type.                                      *)
(***************************************************************************)
AnyFeatures ==
    {[field_value |-> Number(v), geometry |-> Point(<<0, 0>>)] : v \in (-1)..MaxVal}
    \cup {[field_value |-> f, geometry |-> Point(<<0, 0>>)] :
             f \in {Missing, NotNumeric, NotFinite}}
    \cup {[field_value |-> Number(1), geometry |-> EmptyGeometry],
          [field_value |-> Number(1), geometry |-> MultiPoint(<<0, 0>>)]}

AnyLayers == UNION {[1..n -> AnyFeatures] : n \in 0..MaxFeatures}

InitExtract ==
    /\ params \in {[DefaultParams EXCEPT !.data_type = d] : d \in DataTypes}
    /\ layer \in AnyLayers
    /\ pc = "extract"
    /\ calls = <<>>
    /\ current_progress = 0
    /\ features = <<>>
    /\ values = <<>>
    /\ coordinates = <<>>
    /\ adjacency = NoMatrix
    /\ W = NoMatrix
    /\ log = {}
    /\ processed_values = <<>>
    /\ moran = Absent
    /\ lisa = Absent
    /\ lisa_layer = Absent
    /\ saved_file = Absent
    /\ error = NoError
    /\ dialog = DialogIdle

NextExtract == ExtractPhase

SpecExtract == InitExtract /\ [][NextExtract]_vars

(***************************************************************************)
(* The weights builder called on any coordinates.                          *)
(***************************************************************************)
InitWeights ==
    /\ params \in NeighborParams
    /\ \E n \in 1..MaxN : coordinates \in Layouts(n)
    /\ layer = <<>>
    /\ pc = "weights"
    /\ calls = <<>>
    /\ current_progress = 5
    /\ features = <<>>
    /\ values = <<>>
    /\ adjacency = NoMatrix
    /\ W = NoMatrix
    /\ log = {}
    /\ processed_values = <<>>
    /\ moran = Absent
    /\ lisa = Absent
    /\ lisa_layer = Absent
    /\ saved_file = Absent
    /\ error = NoError
    /\ dialog = DialogIdle

NextWeights == WeightsPhase

SpecWeights == InitWeights /\ [][NextWeights]_vars

(***************************************************************************)
(* An estimator called as run_analysis calls it: on the transformed values *)
(* and on a matrix the builder returned for as many coordinates.           *)
(***************************************************************************)
InitEstimator(P, layouts) ==
    /\ params \in P
    /\ coordinates \in layouts
    /\ \E b \in build_spatial_weights_matrix(coordinates, params) :
          /\ ~b.raised
          /\ adjacency = b.A
          /\ W = b.W
          /\ log = b.log
    /\ values \in [1..Len(coordinates) -> 0..MaxVal]
    /\ processed_values = prepare_data_by_type(values, params)
    /\ layer = <<>>
    /\ features = <<>>
    /\ calls = <<>>
    /\ current_progress = 35
    /\ moran = Absent
    /\ lisa = Absent
    /\ lisa_layer = Absent
    /\ saved_file = Absent
    /\ error = NoError
    /\ dialog = DialogIdle

MoranParams ==
    {[q EXCEPT !.permutations = m] : q \in NeighborParams, m \in PermutationChoices}

InitMoran == InitEstimator(MoranParams, LatticeLayouts(EstimatorSizes)) /\ pc = "moran"

NextMoran == MoranPhase

SpecMoran == InitMoran /\ [][NextMoran]_vars

\* the local estimator reads the data type through the values it is given, and halves
\* the requested permutations
LisaParams ==
    {[q EXCEPT !.data_type = d, !.permutations = m] :
        q \in NeighborParams, d \in DataTypes,
        m \in (1..MaxPermutations) \cup {2 * GlobalPermutationCap + 2}}

\* three observations in a row, the last one farther from the others than any radius
RemoteLayout == <<<<0, 0>>, <<2, 0>>, <<2 * MaxRadius + 2, 0>>>>

LisaLayouts == LatticeLayouts({3}) \cup {RemoteLayout}

InitLisa == InitEstimator(LisaParams, LisaLayouts) /\ pc = "lisa"

NextLisa == LisaPhase

SpecLisa == InitLisa /\ [][NextLisa]_vars

(***************************************************************************)
(* The local estimation and the result layer made from it, as run_analysis *)
(* runs them when only run_lisa is set, on layers with different fields.   *)
(***************************************************************************)
\* the fields of the original layer: the analysed field alone, with one id field, with
\* two id fields and a field of no interest, and with id fields in several spellings
FieldLists ==
    {<<"valor">>,
     <<"id", "valor">>,
     <<"nome", "valor", "OBJECTID", "fid">>,
     <<"id", "ID", "Id", "fid", "FID", "OBJECTID", "valor">>}

LayerParams ==
    {[q EXCEPT !.run_global = FALSE, !.permutations = m, !.layer_fields = f] :
        q \in NeighborParams, f \in FieldLists,
        m \in {2, 2 * GlobalPermutationCap + 2}}

InitLayer ==
    /\ params \in LayerParams
    /\ coordinates \in LatticeLayouts({3})
    /\ \E b \in build_spatial_weights_matrix(coordinates, params) :
          /\ ~b.raised
          /\ adjacency = b.A
          /\ W = b.W
          /\ log = b.log
    /\ values \in [1..Len(coordinates) -> 0..MaxVal]
    /\ processed_values = prepare_data_by_type(values, params)
    /\ layer = AsSeq([i \in 1..Len(values) |->
                         [field_value |-> Number(values[i]),
                          geometry |-> Point(coordinates[i])]], Len(values))
    /\ features = AsSeq([i \in 1..Len(values) |-> i], Len(values))
    /\ pc = "lisa"
    /\ calls = <<>>
    /\ current_progress = 35
    /\ moran = Absent
    /\ lisa = Absent
    /\ lisa_layer = Absent
    /\ saved_file = Absent
    /\ error = NoError
    /\ dialog = DialogIdle

NextLayer == LisaPhase \/ LayerPhase

SpecLayer == InitLayer /\ [][NextLayer]_vars

(***************************************************************************)
(* Both estimators, one after the other, as run_analysis runs them when    *)
(* run_global and run_lisa are set.                                        *)
(***************************************************************************)
InitEstimators == InitEstimator(MoranParams, LatticeLayouts({3})) /\ pc = "moran"

NextEstimators == MoranPhase \/ LisaPhase

SpecEstimators == InitEstimators /\ [][NextEstimators]_vars

(***************************************************************************)
(* The run of five clustered observations: three high values on a row and  *)
(* two low values above it, K-nearest neighbors with k = 2, continuous     *)
(* data, significance 0.05 and 199 requested permutations.  The run builds *)
(* the weights, prepares the values and runs the estimators; the global    *)
(* analysis may be selected with the local one.                            *)
(***************************************************************************)
ScenarioCoordinates == <<<<0, 0>>, <<1, 0>>, <<2, 0>>, <<0, 1>>, <<1, 1>>>>

ScenarioValues == <<10, 10, 10, 1, 1>>

ScenarioParams ==
    {[DefaultParams EXCEPT !.data_type = "Continuo",
                           !.neighbor_type = "K-vizinhos",
                           !.k_neighbors = 2,
                           !.significance_level = 50,
                           !.permutations = 199,
                           !.run_global = g,
                           !.run_lisa = TRUE] : g \in BOOLEAN}

InitScenario ==
    /\ params \in ScenarioParams
    /\ coordinates = ScenarioCoordinates
    /\ values = ScenarioValues
    /\ features = <<1, 2, 3, 4, 5>>
    /\ layer = <<>>
    /\ pc = "weights"
    /\ calls = <<"extract_and_validate_data">>
    /\ current_progress = 5
    /\ adjacency = NoMatrix
    /\ W = NoMatrix
    /\ log = {}
    /\ processed_values = <<>>
    /\ moran = Absent
    /\ lisa = Absent
    /\ lisa_layer = Absent
    /\ saved_file = Absent
    /\ error = NoError
    /\ dialog = DialogIdle

NextScenario ==
    \/ WeightsPhase
    \/ PreparePhase
    \/ MoranPhase
    \/ LisaPhase

SpecScenario == InitScenario /\ [][NextScenario]_vars

(***************************************************************************)
(* Properties of the weights builder, under SpecWeights.                   *)
(***************************************************************************)
\* the builder returned: run_analysis goes on to prepare the data
BuilderReturned == pc = "prepare"

\* C1: every row of the matrix build_spatial_weights_matrix returns sums to exactly 1
\* (Scale here) or to 0, and every entry is non-negative, for every coordinate set and
\* each of the four neighbor definitions.
C1_RowsSumToOneOrZero ==
    BuilderReturned =>
        \A i \in 1..Len(W) :
            /\ RowSum(W, i) \in {0, Scale}
            /\ \A j \in 1..Len(W) : W[i][j] >= 0

\* a returned matrix with a row of several neighbors, whose weights are fractions,
\* and a row of one neighbor
C1_StandardizedRows ==
    /\ BuilderReturned
    /\ \E i, j \in 1..Len(W) : W[i][j] > 0 /\ W[i][j] < Scale /\ RowSum(W, i) = Scale
    /\ \E i, j \in 1..Len(W) : W[i][j] = Scale

\* C2: the returned matrix never holds a self-neighbor, W[i][i] = 0 for every i, for
\* every neighbor definition and every coordinate set, observations that share a
\* coordinate included.
C2_NoSelfNeighbor ==
    BuilderReturned => \A i \in 1..Len(W) : W[i][i] = 0

Symmetric(M) == \A i, j \in 1..Len(M) : (M[i][j] > 0) <=> (M[j][i] > 0)

\* the adjacency came from the K-nearest rule: asked for, or the Queen fallback
NearestRuleUsed == params.neighbor_type = "K-vizinhos" \/ FallbackLogged \in log

\* C10, as the code has it: the adjacency of Queen by triangulation, of Rook and of the
\* fixed radius is symmetric, and so is the returned matrix: j is a neighbor of i if
\* and only if i is a neighbor of j.  The K-nearest rule is left out.
C10_SymmetricUnlessNearestRule ==
    (BuilderReturned /\ ~NearestRuleUsed) => Symmetric(adjacency) /\ Symmetric(W)

\* a triangulated Queen adjacency with an edge in it
C10_TriangulatedQueen ==
    /\ BuilderReturned
    /\ params.neighbor_type = "Queen"
    /\ ~NearestRuleUsed
    /\ \E i, j \in 1..Len(adjacency) : adjacency[i][j] = 1

\* C10, as claimed: each of the four neighbor definitions, the K-nearest rule and the
\* Queen fallback included, yields a symmetric adjacency and a symmetric matrix.
C10_Symmetric ==
    BuilderReturned => Symmetric(adjacency) /\ Symmetric(W)

\* the observations row i of the adjacency connects i to
Neighbors(i) == {j \in 1..Len(adjacency) : adjacency[i][j] = 1}

\* C11: under the K-nearest-neighbors definition every observation i is connected to
\* exactly k = min(k_requested, n - 1) observations, all different from i, and no
\* unconnected other observation is strictly closer to i than a connected one.  (The
\* order among equal distances is left aside: the three parts here hold or fail
\* whichever way a tie falls.)
C11_ExactlyKNearestOthers ==
    (BuilderReturned /\ params.neighbor_type = "K-vizinhos") =>
        \A i \in 1..Len(adjacency) :
            /\ Cardinality(Neighbors(i)) = Min(params.k_neighbors, Len(adjacency) - 1)
            /\ i \notin Neighbors(i)
            /\ \A j \in Neighbors(i) : \A u \in (1..Len(adjacency)) \ (Neighbors(i) \cup {i}) :
                  Dist2(coordinates[i], coordinates[u]) >= Dist2(coordinates[i], coordinates[j])

\* the squared distance of observations i and j is in (0, radius * radius]
WithinRadius(i, j) ==
    /\ Dist2(coordinates[i], coordinates[j]) > 0
    /\ Dist2(coordinates[i], coordinates[j]) <= params.distance_radius * params.distance_radius

\* C12: under the fixed-radius definition i and j are neighbors if and only if their
\* distance d satisfies 0 < d <= radius; so two distinct observations at one coordinate
\* are not neighbors, and an observation with no other within the radius has an
\* all-zero row.
C12_NeighborsIffWithinRadius ==
    (BuilderReturned /\ params.neighbor_type = "Distancia fixa") =>
        \A i \in 1..Len(W) :
            /\ \A j \in 1..Len(W) :
                  /\ adjacency[i][j] = 1 <=> WithinRadius(i, j)
                  /\ W[i][j] > 0 <=> WithinRadius(i, j)
                  /\ (i # j /\ coordinates[i] = coordinates[j]) => W[i][j] = 0
            /\ (\A j \in 1..Len(W) : ~WithinRadius(i, j)) => \A j \in 1..Len(W) : W[i][j] = 0

\* a fixed-radius matrix of two observations at one coordinate, not neighbors of each
\* other, both neighbors of a third within the radius
C12_CoincidentPairWithNeighbor ==
    /\ BuilderReturned
    /\ params.neighbor_type = "Distancia fixa"
    /\ \E i, j, l \in 1..Len(W) :
          /\ i # j
          /\ coordinates[i] = coordinates[j]
          /\ W[i][j] = 0
          /\ W[i][l] > 0
          /\ W[j][l] > 0

\* the builder was called and has ended
BuilderEnded == pc # "weights"

DistinctCoordinates == {coordinates[i] : i \in 1..Len(coordinates)}

\* C13: for a distance-based definition (Rook, K-nearest, fixed radius) a call on
\* fewer than 2 distinct coordinates fails; it never returns a matrix.  (Any exception
\* is taken for the failure here.)
C13_DegenerateCoordinatesFail ==
    (/\ BuilderEnded
     /\ params.neighbor_type \in {"Rook", "K-vizinhos", "Distancia fixa"}
     /\ Cardinality(DistinctCoordinates) < 2)
        => (pc = "raised" /\ W = NoMatrix)

\* C14: under the Queen definition, whenever the triangulation cannot be used (it
\* raises on collinear input, or n < 3) the builder falls back to the K-nearest rule
\* with k = min(4, n - 1) and logs the fallback: the adjacency is one the K-nearest
\* rule gives from an empty matrix, and no matrix is returned without the log event.
C14_QueenFallsBackAndLogs ==
    (/\ BuilderEnded
     /\ params.neighbor_type = "Queen"
     /\ (Len(coordinates) < 3 \/ AllCollinear(coordinates)))
        => /\ BuilderReturned
           /\ FallbackLogged \in log
           /\ adjacency \in KNearestAdjacency(coordinates, Min(4, Len(coordinates) - 1))

(***************************************************************************)
(* Properties of the extraction, under SpecExtract.                        *)
(***************************************************************************)
\* extract_and_validate_data returned its three lists (run_analysis may then raise on
\* their length)
ExtractReturned == pc # "extract" /\ error # NoValidValue

\* the value of a record is a finite number
FiniteNumber(feature) == feature.field_value.kind = "number"

\* C21: every returned value is finite, and for count data every returned value is
\* >= 0; records with a missing, non-numeric or non-finite value, with a negative
\* value for count data, or with an empty geometry are skipped and appear in none of
\* the returned sequences.
C21_ReturnedValuesAreValid ==
    ExtractReturned =>
        /\ \A t \in 1..Len(features) :
              /\ FiniteNumber(layer[features[t]])
              /\ layer[features[t]].geometry.kind # "Empty"
              /\ params.data_type = "Contagem" => layer[features[t]].field_value.number >= 0
        /\ \A t \in 1..Len(values) :
              /\ params.data_type = "Contagem" => values[t] >= 0
              /\ \E i \in 1..Len(layer) :
                    FiniteNumber(layer[i]) /\ values[t] = layer[i].field_value.number
        /\ Len(values) + Cardinality({i \in 1..Len(layer) : SkippedBeforeAppend(layer[i], params)})
              = Len(layer)

\* count data returned from a layer that held a negative value, a value that is not
\* finite and a valid one
C21_NegativeCountSkipped ==
    /\ ExtractReturned
    /\ params.data_type = "Contagem"
    /\ \E i \in 1..Len(layer) : FiniteNumber(layer[i]) /\ layer[i].field_value.number < 0
    /\ \E i \in 1..Len(layer) : layer[i].field_value.kind = "not finite"
    /\ Len(values) = 1

(***************************************************************************)
(* Properties of a whole run, under Spec.                                  *)
(***************************************************************************)
\* the features of the layer that pass every check of the extraction and yield a
\* coordinate: the others are counted in invalid_count
ValidObservations ==
    Cardinality({i \in 1..Len(layer) :
                    /\ layer[i].geometry.kind = "Point"
                    /\ layer[i].field_value.kind = "number"
                    /\ ~(params.data_type = "Contagem" /\ layer[i].field_value.number < 0)})

\* C3: a run with fewer than 3 valid observations fails with a validation error before
\* the weights builder is invoked: the builder, the transformer and the estimators
\* are never called in such a run.
C3_FewObservationsFailBeforeWeights ==
    ValidObservations < 3 =>
        /\ \A t \in 1..Len(calls) : calls[t] = "extract_and_validate_data"
        /\ pc \in {"extract", "raised"}
        /\ pc = "raised" => error \in {InsufficientObservations, NoValidValue}

\* a phase of the run has failed: an exception ended the run, or the saving or the
\* visualization reported its failure
PhaseFailed ==
    \/ pc = "raised"
    \/ SaveFailedLogged \in log
    \/ VisualizationFailedLogged \in log

RunReturned == pc = "returned"

\* C16: every failure in any phase is terminal: once a phase has failed (extraction,
\* weights, transform, Global Moran, LISA, result-layer creation, saving the layer to
\* file, applying the visualization) run_analysis returns no results object and the
\* progress never reaches completed (100).
C16_EveryFailureIsTerminal ==
    PhaseFailed => (~RunReturned /\ current_progress < 100)

\* C17: a run of the worker with run_global = run_lisa = false fails with a validation
\* error and computes nothing: no weights matrix is built and no results object is
\* returned.
C17_NoAnalysisSelectedFails ==
    (~params.run_global /\ ~params.run_lisa) =>
        /\ \A t \in 1..Len(calls) : calls[t] # "build_spatial_weights_matrix"
        /\ W = NoMatrix
        /\ ~RunReturned

\* C18: the results of a successful run hold the Global Moran result if and only if
\* the global analysis was requested, the LISA result if and only if the local
\* analysis was requested, and always the original and the transformed values, each
\* of length n, the number of observations the extraction accepted.
C18_ResultsHoldWhatWasRequested ==
    RunReturned =>
        /\ moran # Absent <=> params.run_global
        /\ lisa # Absent <=> params.run_lisa
        /\ Len(values) = Len(features)
        /\ Len(processed_values) = Len(features)
        /\ Len(features) >= 3

\* a returned run that was asked for the global analysis alone, and one value differs
C18_ReturnedGlobalOnly ==
    /\ RunReturned
    /\ moran # Absent
    /\ lisa = Absent
    /\ \E i \in 1..Len(values) : values[i] # values[1]
    /\ Len(processed_values) = Len(values)

\* C25: after extract_and_validate_data returns, the feature list, the value array and
\* the coordinate array have the same length, and index t of each refers to the same
\* input feature, also when a record's value is accepted and its point extraction
\* then raises.
C25_ListsAligned ==
    (pc # "extract" /\ error # NoValidValue) =>
        /\ Len(features) = Len(values)
        /\ Len(features) = Len(coordinates)
        /\ \A t \in 1..Len(features) :
              /\ values[t] = layer[features[t]].field_value.number
              /\ coordinates[t] = layer[features[t]].geometry.at

\* the phases in the order of the claim, and the progress each one reports
PhaseOrder ==
    <<"extract_and_validate_data", "build_spatial_weights_matrix", "prepare_data_by_type",
      "calculate_advanced_moran_i", "calculate_advanced_lisa", "create_lisa_layer",
      "save_layer_to_file", "create_automatic_visualization">>

PhaseProgress == <<5, 20, 35, 50, 70, 85, 90, 95>>

Place(phase) == CHOOSE k \in 1..Len(PhaseOrder) : PhaseOrder[k] = phase

\* the phases called so far are in the order of PhaseOrder, and the progress is that
\* of the last one called, or 100 once the run returned
ProgressFollowsPhases ==
    /\ \A t \in 1..Len(calls) : \E k \in 1..Len(PhaseOrder) : PhaseOrder[k] = calls[t]
    /\ \A t, u \in 1..Len(calls) : t < u => Place(calls[t]) < Place(calls[u])
    /\ current_progress = IF RunReturned THEN 100
                          ELSE IF calls = <<>> THEN 0
                          ELSE PhaseProgress[Place(calls[Len(calls)])]
    /\ current_progress = 100 <=> RunReturned

\* C26: during one run current_progress never decreases and takes its values in the
\* order 5, 20, 35, 50, 70, 85, 90, 95, 100, the steps of unrequested phases skipped;
\* it equals 100 if and only if run_analysis returned a results object; the phases
\* run in the order extraction, weights, transform, global Moran, LISA, result layer,
\* file save, visualization.
C26_ProgressInOrder ==
    /\ []ProgressFollowsPhases
    /\ [][current_progress' > current_progress]_vars

\* a returned run that went through all eight phases
C26_AllPhasesRun ==
    /\ RunReturned
    /\ calls = PhaseOrder
    /\ current_progress = 100

(***************************************************************************)
(* Properties of the Global Moran estimator, under SpecMoran.              *)
(***************************************************************************)
MoranEnded == pc # "moran"

MoranFailed == pc = "raised" /\ error = PermutationsFailed

\* C4: when the weights matrix sums to zero, the estimation ends in a failure of its
\* own, which is not the insufficient-permutations failure and not a result.
C4_NoNeighborsFailsDistinctly ==
    (MoranEnded /\ TotalWeight(W) = 0) =>
        /\ pc = "raised"
        /\ moran = Absent
        /\ error # PermutationsFailed

\* C5: for 4 observations of one value at distinct coordinates, under any neighbor
\* definition, the estimation does not fail: it returns a result.
C5_IdenticalValuesReturn ==
    (MoranEnded /\ Len(values) = 4 /\ \A i \in 1..4 : values[i] = values[1]) =>
        /\ pc # "raised"
        /\ moran # Absent

\* the trials the estimation runs
ExecutedTrials == Min(params.permutations, GlobalPermutationCap)

\* the trials whose statistic is finite: S0 and the sum of squares are those of the
\* observed statistic in every trial, so all the trials are finite or none is
FiniteTrials ==
    IF MoranDenominator(W, Centered(processed_values)) = 0 THEN 0 ELSE ExecutedTrials

\* C6, as the code has it: the estimation fails with the insufficient-permutations
\* error if and only if fewer than 50% of the trials it ran, min(permutations, 199) of
\* them, gave a finite statistic.
C6_FailsUnderHalfOfExecuted ==
    MoranEnded => (MoranFailed <=> 2 * FiniteTrials < ExecutedTrials)

\* a result returned for more requested permutations than twice the trials run
C6_ReturnedBeyondTwiceTheCap ==
    /\ MoranEnded
    /\ moran # Absent
    /\ params.permutations > 2 * moran.total_attempted
    /\ moran.permutations = moran.total_attempted

\* C6, as claimed: the estimation fails with the insufficient-permutations error if and
\* only if fewer than 50% of the requested permutations gave a finite statistic.
C6_FailsUnderHalfOfRequested ==
    MoranEnded => (MoranFailed <=> 2 * FiniteTrials < params.permutations)

\* C19: the estimation executes at most min(permutations, 199) trials, and in every
\* returned result valid_permutations <= requested_permutations: the count of the
\* trials with a finite statistic is at most the count of the trials run, which is
\* at most the caller's requested count and at most 199.
C19_TrialsWithinCapAndRequest ==
    moran # Absent =>
        /\ moran.total_attempted <= GlobalPermutationCap
        /\ moran.total_attempted <= params.permutations
        /\ moran.permutations <= moran.total_attempted
        /\ moran.permutations <= params.permutations

\* a result for a request above the cap: 199 trials run, all of them finite
C19_ReturnedAtTheCap ==
    /\ moran # Absent
    /\ params.permutations > GlobalPermutationCap
    /\ moran.total_attempted = GlobalPermutationCap
    /\ moran.permutations = GlobalPermutationCap
    /\ moran.Var_I > 0

(***************************************************************************)
(* Properties of the LISA estimator, under SpecLisa.                       *)
(***************************************************************************)
\* C7: the pattern of every observation is the one the raw values determine: its raw
\* value and the weighted mean of its neighbors' raw values against the raw mean.
C7_PatternsFromRawValues ==
    lisa # Absent =>
        \A i \in 1..Len(values) :
            lisa.spatial_patterns[i]
                = SpatialPattern(lisa.p_values[i], values, W, i, params.significance_level)

\* the quadrant of two deviations from the mean, neither of them 0
Quadrant(own, lag) ==
    IF own > 0 THEN (IF lag > 0 THEN "High-High" ELSE "High-Low")
    ELSE (IF lag > 0 THEN "Low-High" ELSE "Low-Low")

\* C8, as the code has it: the pattern is NotSignificant exactly when p_i is above the
\* significance level or the value or the neighbor lag equals the mean; any other
\* pattern is the quadrant of the signs of (value - mean) and (lag - mean).
C8_NotSignificantAboveLevelOrAtMean ==
    lisa # Absent =>
        \A i \in 1..Len(values) :
            LET own == OwnDeviation(processed_values, i)
                lag == LagDeviation(processed_values, W, i)
                above == ~AtMostLevel(lisa.p_values[i], params.significance_level)
            IN  /\ lisa.spatial_patterns[i] = NotSignificant
                      <=> (above \/ own = 0 \/ lag = 0)
                /\ lisa.spatial_patterns[i] # NotSignificant
                      => lisa.spatial_patterns[i] = Quadrant(own, lag)

\* an observation at or below the level whose neighbor lag equals the mean, next to
\* one that got a quadrant
C8_SignificantAtMean ==
    /\ lisa # Absent
    /\ \E i \in 1..Len(values) :
          /\ AtMostLevel(lisa.p_values[i], params.significance_level)
          /\ OwnDeviation(processed_values, i) # 0
          /\ LagDeviation(processed_values, W, i) = 0
          /\ lisa.spatial_patterns[i] = NotSignificant
    /\ \E i \in 1..Len(values) : lisa.spatial_patterns[i] # NotSignificant

\* C8, as claimed: the pattern is NotSignificant exactly when p_i is above the
\* significance level, also when the value or the lag equals the mean.
C8_NotSignificantExactlyAboveLevel ==
    lisa # Absent =>
        \A i \in 1..Len(values) :
            lisa.spatial_patterns[i] = NotSignificant
                <=> ~AtMostLevel(lisa.p_values[i], params.significance_level)

LisaEnded == pc # "lisa"

\* the trials the estimation runs for each observation; the statistic of a trial is
\* a finite sum of finite products, so these are also the trials with a finite value
LocalTrials == Min(params.permutations \div 2, LisaPermutationCap)

\* C15: an observation for which zero permutation trials produced a finite value gets
\* p = 1.0 and z = 0.0 and the run continues: the estimation does not fail, and every
\* observation receives its results.
C15_NoTrialsDefault ==
    (LisaEnded /\ LocalTrials = 0) =>
        /\ pc = "layer"
        /\ error = NoError
        /\ lisa # Absent
        /\ DOMAIN lisa.lisa_values = 1..Len(values)
        /\ DOMAIN lisa.spatial_patterns = 1..Len(values)
        /\ \A i \in 1..Len(values) : lisa.p_values[i] = One /\ lisa.z_scores[i] = 0

\* an estimation without trials that returned, for values that are not all alike
C15_ReturnedWithoutTrials ==
    /\ LisaEnded
    /\ LocalTrials = 0
    /\ lisa # Absent
    /\ \E i \in 1..Len(values) : lisa.lisa_values[i] # 0
    /\ \A i \in 1..Len(values) : lisa.p_values[i] = One

\* the observations labelled as part of a cluster
Clustered == {i \in 1..Len(values) : lisa.spatial_patterns[i] \in {"High-High", "Low-Low"}}

\* C20: for the five observations of the scenario every run of the LISA estimation
\* labels at least one observation High-High or Low-Low.  Checked under SpecScenario.
C20_ScenarioLabelsACluster ==
    lisa # Absent => Clustered # {}

\* every rearrangement of the stream that a trial of observation i draws has y[i] at
\* place i
HeldFixed(stream, y, i) ==
    \A d \in 1..2 :
        Draws(d, (i - 1) * LocalTrials, LocalTrials) > 0 => stream[d][i] = y[i]

\* C22: in every local permutation trial of observation i the permuted vector keeps
\* y_i at position i and rearranges only the other n - 1 centred values.  The drawn
\* vectors are not part of the result, so the property is stated of the result: it is
\* one that draws holding y_i at position i, for every i, produce.
C22_OwnValueHeldFixed ==
    lisa # Absent =>
        \E stream \in Streams(Centered(processed_values)) :
            /\ \A i \in 1..Len(values) : HeldFixed(stream, Centered(processed_values), i)
            /\ lisa = calculate_advanced_lisa(processed_values, W, params, stream)

\* observation i has no neighbors: its row of W is all zero
Isolated(i) == RowSum(W, i) = 0

\* C28: an isolated observation (all-zero row in W) gets local_I = 0, z = 0 and
\* p = 1.0 whenever at least one local trial runs, and is labelled not significant
\* whatever its value.
C28_IsolatedIsNotSignificant ==
    (LisaEnded /\ lisa # Absent) =>
        \A i \in 1..Len(values) :
            Isolated(i) =>
                /\ lisa.lisa_values[i] = 0
                /\ lisa.z_scores[i] = 0
                /\ lisa.p_values[i] = One
                /\ lisa.spatial_patterns[i] = NotSignificant

\* an estimation with trials in which an observation away from the mean is isolated
\* and another observation has neighbors
C28_IsolatedAwayFromMean ==
    /\ LisaEnded
    /\ lisa # Absent
    /\ LocalTrials >= 1
    /\ \E i, j \in 1..Len(values) :
          /\ Isolated(i)
          /\ OwnDeviation(processed_values, i) # 0
          /\ ~Isolated(j)
          /\ lisa.p_values[i] = One

(***************************************************************************)
(* Properties of both estimators, under SpecEstimators.                    *)
(***************************************************************************)
\* the statistics of the trials of a stream, and the observed one, over one denominator
PermutedStatistics(stream) ==
    Trials(<<MoranNumerator(W, stream[1]), MoranNumerator(W, stream[2])>>,
           0, moran.total_attempted)

ObservedNumerator == moran.I[1]

\* the count c of the claim: the permuted statistics >= I_observed when
\* I_observed >= -1 / (n - 1), those <= I_observed otherwise
ExtremeCount(stream) ==
    IF ObservedNumerator * (Len(values) - 1) >= -moran.I[2]
    THEN CountAtLeast(PermutedStatistics(stream), ObservedNumerator)
    ELSE CountAtMost(PermutedStatistics(stream), ObservedNumerator)

\* C23: the Global Moran p-value equals min(1, 2 * c / valid_permutations), with c the
\* number of valid permuted statistics >= I_observed when I_observed >= E[I] and the
\* number <= I_observed when I_observed < E[I], E[I] = -1 / (n - 1): for every stream
\* of draws that gives the returned result.
C23_PValueByDirectionFromExpectation ==
    moran # Absent =>
        \A stream \in Streams(Centered(processed_values)) :
            \/ moran.p_value
                 = IF 2 * ExtremeCount(stream) >= moran.permutations THEN One
                   ELSE <<2 * ExtremeCount(stream), moran.permutations>>
            \/ moran # calculate_advanced_moran_i(processed_values, W, params, stream)

\* a result with E[I] <= I_observed < 0 and a p-value below 1: the permuted statistics
\* are counted above the observed one although it is negative
C23_BetweenExpectationAndZero ==
    /\ moran # Absent
    /\ moran.I[1] < 0
    /\ moran.I[1] * (Len(values) - 1) >= -moran.I[2]
    /\ moran.p_value # One

\* 0 <= num / den <= 1, which no nan satisfies
InUnitInterval(q) == q[2] > 0 /\ 0 <= q[1] /\ q[1] <= q[2]

StrictlyInside(q) == q[2] > 0 /\ 0 < q[1] /\ q[1] < q[2]

\* C9: in every run that returns, the Global Moran p-value and the LISA p-value of
\* every observation lie in [0, 1].
C9_PValuesInUnitInterval ==
    /\ moran # Absent => InUnitInterval(moran.p_value)
    /\ lisa # Absent => \A i \in 1..Len(values) : InUnitInterval(lisa.p_values[i])

\* both estimators returned, each with a p-value strictly between 0 and 1
C9_BothReturned ==
    /\ moran # Absent
    /\ lisa # Absent
    /\ StrictlyInside(moran.p_value)
    /\ \E i \in 1..Len(values) : StrictlyInside(lisa.p_values[i])

\* the trials of a list all gave one statistic, or there is at most one trial: their
\* variance is 0
NoSpread(xs) == xs[1].times = 0 \/ xs[2].times = 0 \/ xs[1].value = xs[2].value

\* C24: whenever the variance of the valid permuted statistics is 0, the case of a
\* single valid permutation included, the reported z-score is exactly 0, for the
\* Global Moran z-score and for each observation's LISA z-score: for every stream of
\* draws that gives the returned result.
C24_ZeroVarianceGivesZeroScore ==
    /\ moran # Absent =>
          \/ moran.z_score = 0
          \/ \A stream \in Streams(Centered(processed_values)) :
                 ~ /\ NoSpread(PermutedStatistics(stream))
                   /\ moran = calculate_advanced_moran_i(processed_values, W, params, stream)
    /\ lisa # Absent =>
          \A i \in 1..Len(values) :
              \/ lisa.z_scores[i] = 0
              \/ \A stream \in Streams(Centered(processed_values)) :
                     ~ /\ NoSpread(LisaPermuted(W, Centered(processed_values), i, stream,
                                                (i - 1) * LocalTrials, LocalTrials))
                       /\ lisa = calculate_advanced_lisa(processed_values, W, params, stream)

\* a Moran result of several trials without spread whose statistic differs from its
\* expectation, and a LISA result with a z-score of 0 next to one that is not 0
C24_TrialsWithoutSpread ==
    /\ moran # Absent
    /\ lisa # Absent
    /\ moran.permutations >= 2
    /\ moran.Var_I = 0
    /\ moran.z_score = 0
    /\ moran.I[1] * (Len(values) - 1) + moran.I[2] # 0
    /\ \E i, j \in 1..Len(values) :
          /\ lisa.z_scores[i] = 0 /\ lisa.lisa_values[i] # 0
          /\ lisa.z_scores[j] # 0

(***************************************************************************)
(* Properties of the result layer, under SpecLayer.                        *)
(***************************************************************************)
\* create_lisa_layer returned a layer
LayerWritten == lisa_layer # Absent

\* the labels of the four quadrants
QuadrantLabels == {"High-High", "Low-Low", "High-Low", "Low-High"}

\* C29: for every feature written to the LISA result layer Significativo is 'Sim'
\* exactly when the observation's p-value <= significance_level and 'Nao' otherwise,
\* and Categoria_Visual equals Padrao_Espacial; a feature marked 'Nao' carries a
\* quadrant label in neither field.
C29_SignificanceFieldsAgree ==
    LayerWritten =>
        /\ Len(lisa_layer.features) = Len(features)
        /\ \A i \in 1..Len(lisa_layer.features) :
              LET written == lisa_layer.features[i].lisa
              IN  /\ written.LISA_P = lisa.p_values[i]
                  /\ written.Significativo \in {"Sim", "Nao"}
                  /\ written.Significativo = "Sim"
                        <=> AtMostLevel(lisa.p_values[i], params.significance_level)
                  /\ written.Categoria_Visual = written.Padrao_Espacial
                  /\ written.Significativo = "Nao" =>
                        /\ written.Padrao_Espacial \notin QuadrantLabels
                        /\ written.Categoria_Visual \notin QuadrantLabels

\* a layer with a feature marked 'Sim' under a quadrant label, one marked 'Sim' with
\* its value at the mean, and one marked 'Nao'
C29_WrittenOfEachKind ==
    /\ LayerWritten
    /\ \E i, j \in 1..Len(lisa_layer.features) :
          /\ lisa_layer.features[i].lisa.Significativo = "Sim"
          /\ lisa_layer.features[i].lisa.Categoria_Visual \in QuadrantLabels
          /\ lisa_layer.features[j].lisa.Significativo = "Nao"

\* the essential fields that exist in the original layer
EssentialInOriginal ==
    {name \in Names(params.layer_fields) :
        Lower(name) \in IdNames \cup {Lower(params.field_name)}}

\* C30: every feature written to the LISA result layer carries the essential
\* attributes of its source feature: for each essential field of the original layer
\* (an id, fid or objectid field and the analysed field) the new feature's attribute
\* equals the source feature's value, for any number of essential fields.
C30_EssentialAttributesCopied ==
    LayerWritten =>
        \A i \in 1..Len(lisa_layer.features) :
            \A name \in EssentialInOriginal :
                lisa_layer.features[i].essential[name]
                    = SourceValue(layer, features[i], name, params)

(***************************************************************************)
(* Properties of the dialog, under SpecDialog.                             *)
(***************************************************************************)
WorkerRunning == dialog.at = "running"

RunEnded == dialog.at \in {"results", "done", "error"}

\* C27: once an analysis has been started the run button stays disabled for as long
\* as the worker is running, and on every way the run ends (success, an exception of
\* the worker or of showing the results) the run button is enabled again, the
\* progress timer stopped and the progress bar hidden; the dialog is never left with
\* the run button disabled.
C27_RunButtonRestored ==
    /\ [](WorkerRunning => ~dialog.run_button /\ dialog.timer /\ dialog.progress_bar)
    /\ [](RunEnded => dialog.run_button /\ ~dialog.timer /\ ~dialog.progress_bar)
    /\ (WorkerRunning ~> (RunEnded /\ dialog.run_button))

\* a run whose worker returned and whose results dialog raised, handled as an error
C27_ShowingResultsFailed ==
    /\ dialog.at = "error"
    /\ pc = "returned"
    /\ dialog.run_button

====
